---- MODULE Spec2Model ----
(***************************************************************************)
(* Substream serialization protocol of ISerialization: substream paths,    *)
(* the stream enumerator, the name resolver, the substreams cache and the  *)
(* bulk codec driver.                                                      *)
(*                                                                         *)
(* Strings are sequences of one-character strings, so that escaping,       *)
(* concatenation and substr are computed character by character.           *)
(***************************************************************************)
EXTENDS Integers, Sequences, FiniteSets, TLC

VARIABLES
    path,       \* the caller's SubstreamPath (settings.path in the driver)
    cache,      \* SubstreamsCache * : nullptr (present = FALSE) or a map name -> column
    column,     \* the caller's ColumnPtr: the column's name and number of rows
    last        \* observation of the last operation: its inputs and outcome

vars == <<path, cache, column, last>>

----------------------------------------------------------------------------
(* Bounds of the model *)

MaxPathLen == 3
MaxOtherLen == 2
MaxEnumLen == 3
MaxDriverLen == 1
MaxRows == 2
MaxComposeLen == 3
MaxMapRows == 2

----------------------------------------------------------------------------
(* Strings *)

Digit == <<"0", "1", "2", "3", "4", "5", "6", "7", "8", "9">>

RECURSIVE toString(_)
toString(n) ==
    IF n < 10 THEN <<Digit[n + 1]>>
    ELSE toString(n \div 10) \o <<Digit[(n % 10) + 1]>>

isWordCharASCII(c) ==
    c \in {"a", "b", "c", "d", "e", "i", "l", "n", "s", "t", "u", "x", "z",
           "0", "1", "2", "3", "4", "5", "6", "7", "8", "9", "_"}

hexDigits(c) ==
    CASE c = "." -> <<"2", "E">>
      [] c = "%" -> <<"2", "5">>
      [] c = "-" -> <<"2", "D">>
      [] OTHER   -> <<"3", "F">>

RECURSIVE escapeForFileName(_)
escapeForFileName(s) ==
    IF s = <<>> THEN <<>>
    ELSE (IF isWordCharASCII(Head(s)) THEN <<Head(s)>>
          ELSE <<"%">> \o hexDigits(Head(s)))
         \o escapeForFileName(Tail(s))

substr(s, pos) == SubSeq(s, pos + 1, Len(s))

RECURSIVE find_first_of(_, _, _)
find_first_of(s, c, i) ==
    IF i > Len(s) THEN 0
    ELSE IF s[i] = c THEN i
    ELSE find_first_of(s, c, i + 1)

splitName(name) ==
    LET idx == find_first_of(name, ".", 1)
    IN  IF idx = 0 \/ idx = 1 \/ idx = Len(name)
        THEN <<name, <<>>>>
        ELSE <<SubSeq(name, 1, idx - 1), SubSeq(name, idx + 1, Len(name))>>

extractTableName(nested_name) == splitName(nested_name)[1]

----------------------------------------------------------------------------
(* Path model *)

NoData == [type |-> "null", column |-> "null", serialization |-> "null",
           creator |-> "null"]

Substream(kind) ==
    [type |-> kind, tuple_element_name |-> <<>>,
     escape_tuple_delimiter |-> TRUE, data |-> NoData]

TupleElement(elem, escape) ==
    [type |-> "TupleElement", tuple_element_name |-> elem,
     escape_tuple_delimiter |-> escape, data |-> NoData]

PlainKinds ==
    {"Regular", "NullMap", "ArraySizes", "ArrayElements", "DictionaryKeys",
     "DictionaryIndexes", "SparseOffsets"}

TupleNames == {<<"b">>, <<"c", ".", "d">>}

PlainNodes == {Substream(k) : k \in PlainKinds}

TupleNodes == {TupleElement(n, e) : n \in TupleNames, e \in BOOLEAN}

Nodes == PlainNodes \cup TupleNodes

BaseNames == {<<"a">>, <<"n", ".", "a">>, <<"n", ".", "b">>, <<".", "x">>}

----------------------------------------------------------------------------
(* Name resolver *)

RECURSIVE NameLoop(_, _, _, _, _, _)
NameLoop(stream_name, p, it, end, array_level, escape_tuple_delimiter) ==
    IF it > end THEN stream_name
    ELSE
      LET t == p[it].type IN
      IF t = "NullMap" THEN
        NameLoop(stream_name \o <<".", "n", "u", "l", "l">>, p, it + 1, end,
                 array_level, escape_tuple_delimiter)
      ELSE IF t = "ArraySizes" THEN
        NameLoop(stream_name \o <<".", "s", "i", "z", "e">> \o toString(array_level),
                 p, it + 1, end, array_level, escape_tuple_delimiter)
      ELSE IF t = "ArrayElements" THEN
        NameLoop(stream_name, p, it + 1, end, array_level + 1,
                 escape_tuple_delimiter)
      ELSE IF t = "DictionaryKeys" THEN
        NameLoop(stream_name \o <<".", "d", "i", "c", "t">>, p, it + 1, end,
                 array_level, escape_tuple_delimiter)
      ELSE IF t = "SparseOffsets" THEN
        NameLoop(stream_name \o <<".", "s", "p", "a", "r", "s", "e", ".", "i", "d", "x">>,
                 p, it + 1, end, array_level, escape_tuple_delimiter)
      ELSE IF t = "TupleElement" THEN
        NameLoop(stream_name
                   \o (IF escape_tuple_delimiter /\ p[it].escape_tuple_delimiter
                       THEN escapeForFileName(<<".">>) ELSE <<".">>)
                   \o escapeForFileName(p[it].tuple_element_name),
                 p, it + 1, end, array_level, escape_tuple_delimiter)
      ELSE
        NameLoop(stream_name, p, it + 1, end, array_level,
                 escape_tuple_delimiter)

getNameForSubstreamPath_LevelFromOne(stream_name, p, end, escape_tuple_delimiter) ==
    NameLoop(stream_name, p, 1, end, 1, escape_tuple_delimiter)

getNameForSubstreamPath(stream_name, p, end, escape_tuple_delimiter) ==
    NameLoop(stream_name, p, 1, end, 0, escape_tuple_delimiter)

getFileNameForStream_AnyLength(name_in_storage, p) ==
    LET nested_storage_name == extractTableName(name_in_storage)
        stream_name ==
            IF name_in_storage # nested_storage_name
               /\ (Len(p) >= 1 /\ p[1].type = "ArraySizes")
            THEN escapeForFileName(nested_storage_name)
            ELSE escapeForFileName(name_in_storage)
    IN  getNameForSubstreamPath(stream_name, p, Len(p), TRUE)

getFileNameForStream_DropLast(name_in_storage, p) ==
    getNameForSubstreamPath(escapeForFileName(name_in_storage), p,
                            IF Len(p) > 1 THEN Len(p) - 1 ELSE Len(p), TRUE)

getFileNameForStream(name_in_storage, p) ==
    LET nested_storage_name == extractTableName(name_in_storage)
        stream_name ==
            IF name_in_storage # nested_storage_name
               /\ (Len(p) = 1 /\ p[1].type = "ArraySizes")
            THEN escapeForFileName(nested_storage_name)
            ELSE escapeForFileName(name_in_storage)
    IN  getNameForSubstreamPath(stream_name, p, Len(p), TRUE)

getSubcolumnNameForStreamPrefix_Escaping(p, prefix_len) ==
    LET subcolumn_name == getNameForSubstreamPath(<<>>, p, prefix_len, TRUE)
    IN  IF subcolumn_name # <<>> THEN substr(subcolumn_name, 1)
        ELSE subcolumn_name

getSubcolumnNameForStreamPrefix_KeepDelimiter(p, prefix_len) ==
    getNameForSubstreamPath(<<>>, p, prefix_len, FALSE)

getSubcolumnNameForStreamPrefix(p, prefix_len) ==
    LET subcolumn_name == getNameForSubstreamPath(<<>>, p, prefix_len, FALSE)
    IN  IF subcolumn_name # <<>> THEN substr(subcolumn_name, 1)
        ELSE subcolumn_name

getSubcolumnNameForStream(p) == getSubcolumnNameForStreamPrefix(p, Len(p))

----------------------------------------------------------------------------
(* State after construction: an empty path, an empty cache, an empty column *)

NoCache == [present |-> FALSE, map |-> <<>>]

EmptyCache == [present |-> TRUE, map |-> <<>>]

Idle == [op |-> "idle"]

NullColumn == [name |-> "nullptr", rows |-> 0]

EmptyColumn == [name |-> "UInt8", rows |-> 0]

Init ==
    /\ path = <<>>
    /\ cache \in {NoCache, EmptyCache}
    /\ column = EmptyColumn
    /\ last = Idle

(* A composite serialization (or the caller) pushes a structural node      *)
(* before descending into a child and pops it afterwards.                  *)
PushSubstream(node) ==
    /\ path' = Append(path, node)
    /\ last' = Idle
    /\ UNCHANGED <<cache, column>>

PopSubstream ==
    /\ path # <<>>
    /\ path' = SubSeq(path, 1, Len(path) - 1)
    /\ last' = Idle
    /\ UNCHANGED <<cache, column>>

----------------------------------------------------------------------------
(* Name resolver operations on the current path *)

GetFileNameForStream(name_in_storage) ==
    /\ last' = [op |-> "getFileNameForStream", name |-> name_in_storage,
                result |-> getFileNameForStream(name_in_storage, path)]
    /\ UNCHANGED <<path, cache, column>>

GetSubcolumnNameForStream(prefix_len) ==
    /\ prefix_len <= Len(path)
    /\ last' = [op |-> "getSubcolumnNameForStream", prefix_len |-> prefix_len,
                result |-> getSubcolumnNameForStreamPrefix(path, prefix_len)]
    /\ UNCHANGED <<path, cache, column>>

RECURSIVE CompressionLoop(_, _)
CompressionLoop(p, i) ==
    IF i > Len(p) THEN TRUE
    ELSE IF \/ p[i].type = "NullMap"
            \/ p[i].type = "ArraySizes"
            \/ p[i].type = "DictionaryIndexes"
            \/ p[i].type = "SparseOffsets"
         THEN FALSE
         ELSE CompressionLoop(p, i + 1)

isSpecialCompressionAllowed_LastNodeOnly(p) ==
    IF p = <<>> THEN TRUE ELSE CompressionLoop(p, Len(p))

isSpecialCompressionAllowed(p) == CompressionLoop(p, 1)

IsSpecialCompressionAllowed ==
    /\ last' = [op |-> "isSpecialCompressionAllowed",
                result |-> isSpecialCompressionAllowed(path)]
    /\ UNCHANGED <<path, cache, column>>

NextNames ==
    \/ \E node \in Nodes : Len(path) < MaxPathLen /\ PushSubstream(node)
    \/ PopSubstream
    \/ \E n \in BaseNames : GetFileNameForStream(n)
    \/ \E k \in 0..MaxPathLen : GetSubcolumnNameForStream(k)
    \/ IsSpecialCompressionAllowed

InitNames ==
    /\ Init
    /\ cache = NoCache

SpecNames == InitNames /\ [][NextNames]_vars

----------------------------------------------------------------------------
(* Stream enumerator *)

Types == {"Int32", "String"}

ColumnIds == {"col1"}

Serializations == {"ISerialization", "SerializationNumber"}

EnumNodes == {Substream("NullMap"), TupleElement(<<"b">>, TRUE)}

RegularWithData(type, col, self) ==
    [Substream("Regular") EXCEPT
        !.data = [type |-> type, column |-> col, serialization |-> self,
                  creator |-> "null"]]

(* The callback either returns or throws; when it throws, the exception    *)
(* leaves enumerateStreams before path.pop_back() runs.                    *)
EnumerateStreams_VisitAfterPop(type, col, self, callback_throws) ==
    /\ Len(path) < MaxEnumLen
    /\ last' = [op |-> "enumerateStreams", path_before |-> path,
                type |-> type, column |-> col, self |-> self,
                visited |-> <<path>>,
                failure |-> IF callback_throws THEN "callback" ELSE "none"]
    /\ UNCHANGED <<path, cache, column>>

EnumerateStreams(type, col, self, callback_throws) ==
    LET pushed == Append(path, RegularWithData(type, col, self))
    IN  /\ Len(path) < MaxEnumLen
        /\ last' = [op |-> "enumerateStreams", path_before |-> path,
                    type |-> type, column |-> col, self |-> self,
                    visited |-> <<pushed>>,
                    failure |-> IF callback_throws THEN "callback" ELSE "none"]
        /\ path' = IF callback_throws THEN pushed
                   ELSE SubSeq(pushed, 1, Len(pushed) - 1)
        /\ UNCHANGED <<cache, column>>

EnumerateStreamsCallbackOnly(self, callback_throws) ==
    EnumerateStreams("null", "null", self, callback_throws)

NextEnum ==
    \/ \E node \in EnumNodes : Len(path) < MaxEnumLen /\ PushSubstream(node)
    \/ PopSubstream
    \/ \E type \in Types, col \in ColumnIds, self \in Serializations,
          callback_throws \in BOOLEAN :
          EnumerateStreams(type, col, self, callback_throws)
    \/ \E self \in Serializations, callback_throws \in BOOLEAN :
          EnumerateStreamsCallbackOnly(self, callback_throws)

InitEnum ==
    /\ Init
    /\ cache = NoCache

SpecEnum == InitEnum /\ [][NextEnum]_vars

----------------------------------------------------------------------------
(* Substreams cache *)

emplace_Assign(m, k, v) ==
    [x \in DOMAIN m \cup {k} |-> IF x = k THEN v ELSE m[x]]

emplace(m, k, v) ==
    IF k \in DOMAIN m THEN m
    ELSE [x \in DOMAIN m \cup {k} |-> IF x = k THEN v ELSE m[x]]

addToSubstreamsCache_EmptyPathToo(c, p, col) ==
    IF c.present
    THEN [c EXCEPT !.map = emplace(c.map, getSubcolumnNameForStream(p), col)]
    ELSE c

addToSubstreamsCache_Overwrite(c, p, col) ==
    IF c.present /\ p # <<>>
    THEN LET k == getSubcolumnNameForStream(p)
         IN  [c EXCEPT !.map = [x \in DOMAIN c.map \cup {k} |->
                                   IF x = k THEN col ELSE c.map[x]]]
    ELSE c

addToSubstreamsCache(c, p, col) ==
    IF c.present /\ p # <<>>
    THEN [c EXCEPT !.map = emplace(c.map, getSubcolumnNameForStream(p), col)]
    ELSE c

getFromSubstreamsCache(c, p) ==
    IF ~c.present \/ p = <<>> THEN NullColumn
    ELSE LET k == getSubcolumnNameForStream(p)
         IN  IF k \notin DOMAIN c.map THEN NullColumn ELSE c.map[k]

AddToSubstreamsCache ==
    /\ cache' = addToSubstreamsCache(cache, path, column)
    /\ last' = [op |-> "addToSubstreamsCache"]
    /\ UNCHANGED <<path, column>>

GetFromSubstreamsCache ==
    /\ last' = [op |-> "getFromSubstreamsCache",
                result |-> getFromSubstreamsCache(cache, path)]
    /\ UNCHANGED <<path, cache, column>>

----------------------------------------------------------------------------
(* Bulk codec driver *)

NoFailure == [code |-> "none", column |-> "none"]

ColumnNames == {"UInt8", "String"}

(* ISerialization itself: the single-stream entry points throw.            *)
defaultSerializeBinaryBulk(col, limit) ==
    [failure |-> [code |-> "MULTIPLE_STREAMS_REQUIRED", column |-> col.name],
     bytes |-> 0]

defaultDeserializeBinaryBulk_ReadsAnyway(col, limit) ==
    [failure |-> NoFailure, bytes |-> limit,
     column |-> [col EXCEPT !.rows = col.rows + limit]]

defaultDeserializeBinaryBulk(col, limit) ==
    [failure |-> [code |-> "MULTIPLE_STREAMS_REQUIRED", column |-> col.name],
     bytes |-> 0, column |-> col]

(* A serialization of a simple type overrides the single-stream entry      *)
(* points and moves the rows through the one buffer.                       *)
simpleSerializeBinaryBulk(col, limit) ==
    [failure |-> NoFailure,
     bytes |-> IF limit < col.rows THEN limit ELSE col.rows]

simpleDeserializeBinaryBulk(col, limit) ==
    [failure |-> NoFailure, bytes |-> limit,
     column |-> [col EXCEPT !.rows = col.rows + limit]]

serializeBinaryBulk(self, col, limit) ==
    IF self = "ISerialization" THEN defaultSerializeBinaryBulk(col, limit)
    ELSE simpleSerializeBinaryBulk(col, limit)

deserializeBinaryBulk(self, col, limit) ==
    IF self = "ISerialization" THEN defaultDeserializeBinaryBulk(col, limit)
    ELSE simpleDeserializeBinaryBulk(col, limit)

SerializeBinaryBulk(self, col, limit) ==
    LET r == serializeBinaryBulk(self, col, limit)
    IN  /\ last' = [op |-> "serializeBinaryBulk", self |-> self,
                    column_name |-> col.name, failure |-> r.failure,
                    bytes |-> r.bytes]
        /\ UNCHANGED <<path, cache, column>>

DeserializeBinaryBulk(self, col, limit) ==
    LET r == deserializeBinaryBulk(self, col, limit)
    IN  /\ last' = [op |-> "deserializeBinaryBulk", self |-> self,
                    column_name |-> col.name, failure |-> r.failure,
                    bytes |-> r.bytes]
        /\ UNCHANGED <<path, cache, column>>

SerializeBinaryBulkWithMultipleStreams_ThrowOnAbsent(self, limit, getter_has_stream) ==
    LET r == IF getter_has_stream THEN serializeBinaryBulk(self, column, limit)
             ELSE defaultSerializeBinaryBulk(column, limit)
    IN  /\ last' = [op |-> "serializeBinaryBulkWithMultipleStreams",
                    self |-> self, hit |-> FALSE, getter_calls |-> 1,
                    stream |-> getter_has_stream,
                    codec_calls |-> IF getter_has_stream THEN 1 ELSE 0,
                    failure |-> r.failure, bytes |-> r.bytes]
        /\ UNCHANGED <<path, cache, column>>

SerializeBinaryBulkWithMultipleStreams(self, limit, getter_has_stream) ==
    LET r == IF getter_has_stream THEN serializeBinaryBulk(self, column, limit)
             ELSE [failure |-> NoFailure, bytes |-> 0]
    IN  /\ last' = [op |-> "serializeBinaryBulkWithMultipleStreams",
                    self |-> self, hit |-> FALSE, getter_calls |-> 1,
                    stream |-> getter_has_stream,
                    codec_calls |-> IF getter_has_stream THEN 1 ELSE 0,
                    failure |-> r.failure, bytes |-> r.bytes]
        /\ UNCHANGED <<path, cache, column>>

DeserializeBinaryBulkWithMultipleStreams_NoStore(self, limit, getter_has_stream) ==
    LET cached_column == getFromSubstreamsCache(cache, path)
        r == deserializeBinaryBulk(self, column, limit)
        op == "deserializeBinaryBulkWithMultipleStreams"
    IN  IF cached_column # NullColumn THEN
            /\ column' = cached_column
            /\ last' = [op |-> op, self |-> self, hit |-> TRUE,
                        getter_calls |-> 0, stream |-> FALSE,
                        codec_calls |-> 0, failure |-> NoFailure, bytes |-> 0]
            /\ UNCHANGED <<path, cache>>
        ELSE IF getter_has_stream THEN
            /\ column.rows + limit <= MaxRows
            /\ last' = [op |-> op, self |-> self, hit |-> FALSE,
                        getter_calls |-> 1, stream |-> TRUE,
                        codec_calls |-> 1, failure |-> r.failure,
                        bytes |-> r.bytes]
            /\ IF r.failure # NoFailure
               THEN UNCHANGED <<cache, column>>
               ELSE /\ column' = r.column
                    /\ cache' = cache
            /\ UNCHANGED path
        ELSE
            /\ last' = [op |-> op, self |-> self, hit |-> FALSE,
                        getter_calls |-> 1, stream |-> FALSE,
                        codec_calls |-> 0, failure |-> NoFailure, bytes |-> 0]
            /\ UNCHANGED <<path, cache, column>>

DeserializeBinaryBulkWithMultipleStreams(self, limit, getter_has_stream) ==
    LET cached_column == getFromSubstreamsCache(cache, path)
        r == deserializeBinaryBulk(self, column, limit)
        op == "deserializeBinaryBulkWithMultipleStreams"
    IN  IF cached_column # NullColumn THEN
            /\ column' = cached_column
            /\ last' = [op |-> op, self |-> self, hit |-> TRUE,
                        getter_calls |-> 0, stream |-> FALSE,
                        codec_calls |-> 0, failure |-> NoFailure, bytes |-> 0]
            /\ UNCHANGED <<path, cache>>
        ELSE IF getter_has_stream THEN
            /\ column.rows + limit <= MaxRows
            /\ last' = [op |-> op, self |-> self, hit |-> FALSE,
                        getter_calls |-> 1, stream |-> TRUE,
                        codec_calls |-> 1, failure |-> r.failure,
                        bytes |-> r.bytes]
            /\ IF r.failure # NoFailure
               THEN UNCHANGED <<cache, column>>
               ELSE /\ column' = r.column
                    /\ cache' = addToSubstreamsCache(cache, path, r.column)
            /\ UNCHANGED path
        ELSE
            /\ last' = [op |-> op, self |-> self, hit |-> FALSE,
                        getter_calls |-> 1, stream |-> FALSE,
                        codec_calls |-> 0, failure |-> NoFailure, bytes |-> 0]
            /\ UNCHANGED <<path, cache, column>>

(* The caller hands in another, empty column for the next subcolumn.       *)
ResetColumn ==
    /\ column # EmptyColumn
    /\ column' = EmptyColumn
    /\ last' = Idle
    /\ UNCHANGED <<path, cache>>

DriverNodes ==
    {Substream("Regular"), Substream("ArrayElements"), Substream("NullMap")}

DriverColumns == {[name |-> n, rows |-> 1] : n \in ColumnNames}

Limits == {0, 1}

NextDriver ==
    \/ \E node \in DriverNodes : Len(path) < MaxDriverLen /\ PushSubstream(node)
    \/ PopSubstream
    \/ ResetColumn
    \/ AddToSubstreamsCache
    \/ GetFromSubstreamsCache
    \/ \E self \in Serializations, col \in DriverColumns, limit \in Limits :
          SerializeBinaryBulk(self, col, limit)
    \/ \E self \in Serializations, col \in DriverColumns, limit \in Limits :
          DeserializeBinaryBulk(self, col, limit)
    \/ \E self \in Serializations, limit \in Limits, getter_has_stream \in BOOLEAN :
          SerializeBinaryBulkWithMultipleStreams(self, limit, getter_has_stream)
    \/ \E self \in Serializations, limit \in Limits, getter_has_stream \in BOOLEAN :
          DeserializeBinaryBulkWithMultipleStreams(self, limit, getter_has_stream)

SpecDriver == Init /\ [][NextDriver]_vars

----------------------------------------------------------------------------
(* Path composer.  In the attached data of a composed path a type, a       *)
(* column and a serialization are the sequence of their wrappers, outermost*)
(* first, ending in the innermost name; the empty sequence is nullptr.     *)

NullPtr == <<>>

create(creator, inner) == <<creator>> \o inner

WithData(kind, type, col, ser, creator) ==
    [Substream(kind) EXCEPT
        !.data = [type |-> type, column |-> col, serialization |-> ser,
                  creator |-> creator]]

ComposeKinds ==
    {<<"NullMap", "Nullable">>, <<"ArrayElements", "Array">>,
     <<"ArrayElements", "null">>, <<"Regular", "null">>}

ComposeNodes ==
    {WithData(k[1], <<"Int32">>, <<"col">>, <<"SerializationNumber">>, k[2]) :
        k \in ComposeKinds}
    \cup {WithData(k[1], <<"String">>, NullPtr, <<"SerializationString">>, k[2]) :
        k \in ComposeKinds}

Rewrap(res, creator) ==
    [type |-> IF res.type # NullPtr THEN create(creator, res.type)
              ELSE res.type,
     serialization |-> IF res.serialization # NullPtr
                       THEN create(creator, res.serialization)
                       ELSE res.serialization,
     column |-> IF res.column # NullPtr THEN create(creator, res.column)
                ELSE res.column,
     creator |-> res.creator]

(* i is the 0-based index of the C++ loop; p[i + 1] is path[i] *)
RECURSIVE ComposeLoop(_, _, _)
ComposeLoop(res, p, i) ==
    IF i < 0 THEN res
    ELSE LET creator == p[i + 1].data.creator
         IN  ComposeLoop(IF creator # "null" THEN Rewrap(res, creator) ELSE res,
                         p, i - 1)

RECURSIVE ComposeLoopUp(_, _, _, _)
ComposeLoopUp(res, p, i, prefix_len) ==
    IF i >= prefix_len THEN res
    ELSE LET creator == p[i + 1].data.creator
         IN  ComposeLoopUp(IF creator # "null" THEN Rewrap(res, creator) ELSE res,
                           p, i + 1, prefix_len)

createFromPath_OutermostFirst(p, prefix_len) ==
    ComposeLoopUp([p[prefix_len + 1].data EXCEPT !.creator = "null"],
                  p, 0, prefix_len)

createFromPath(p, prefix_len) ==
    ComposeLoop([p[prefix_len + 1].data EXCEPT !.creator = "null"],
                p, prefix_len - 1)

CreateFromPath(prefix_len) ==
    /\ prefix_len < Len(path)
    /\ last' = [op |-> "createFromPath", prefix_len |-> prefix_len,
                result |-> createFromPath(path, prefix_len)]
    /\ UNCHANGED <<path, cache, column>>

NextCompose ==
    \/ \E node \in ComposeNodes :
          Len(path) < MaxComposeLen /\ PushSubstream(node)
    \/ PopSubstream
    \/ \E k \in 0..(MaxComposeLen - 1) : CreateFromPath(k)

InitCompose ==
    /\ Init
    /\ cache = NoCache

SpecCompose == InitCompose /\ [][NextCompose]_vars

----------------------------------------------------------------------------
(* The map(k1, v1, ..., kn, vn) function.  An argument is a column: its    *)
(* type, whether it is a constant column (one stored value standing for    *)
(* every row) and its stored values.                                       *)

ArgCounts == {0, 1, 2, 3, 4}

ArgTypes == {"UInt8", "UInt16"}

CellValues == {0, 1}

ArgumentColumns(rows) ==
    {[type |-> t, const |-> TRUE, data |-> <<v>>] :
        t \in ArgTypes, v \in CellValues}
    \cup {[type |-> t, const |-> FALSE, data |-> d] :
        t \in ArgTypes, d \in [1..rows -> CellValues]}

getLeastSupertype(types) ==
    IF types = <<>> THEN "Nothing"
    ELSE IF \E i \in 1..Len(types) : types[i] = "UInt16" THEN "UInt16"
    ELSE "UInt8"

castColumn(arg, to_type) == [arg EXCEPT !.type = to_type]

convertToFullColumnIfConst(col, rows) ==
    IF col.const
    THEN [col EXCEPT !.const = FALSE, !.data = [i \in 1..rows |-> col.data[1]]]
    ELSE col

NoMap ==
    [const |-> FALSE, rows |-> 0, key_type |-> "none", value_type |-> "none",
     keys |-> <<>>, values |-> <<>>, offsets |-> <<>>]

getReturnTypeImpl(arguments) ==
    IF Len(arguments) % 2 # 0
    THEN [failure |-> "NUMBER_OF_ARGUMENTS_DOESNT_MATCH",
          key_type |-> "none", value_type |-> "none"]
    ELSE LET keys == [i \in 1..(Len(arguments) \div 2) |->
                         arguments[2 * i - 1].type]
             values == [i \in 1..(Len(arguments) \div 2) |->
                           arguments[2 * i].type]
         IN  [failure |-> "none", key_type |-> getLeastSupertype(keys),
              value_type |-> getLeastSupertype(values)]

(* j is the 0-based index of the inner C++ loop, i the 0-based row *)
RECURSIVE PairLoop(_, _, _, _, _)
PairLoop(acc, column_ptrs, num_elements, i, j) ==
    IF j >= num_elements THEN acc
    ELSE PairLoop([acc EXCEPT
                      !.keys = Append(@, column_ptrs[j + 1].data[i + 1]),
                      !.values = Append(@, column_ptrs[j + 2].data[i + 1])],
                  column_ptrs, num_elements, i, j + 2)

RECURSIVE RowLoop(_, _, _, _, _, _)
RowLoop(acc, column_ptrs, num_elements, input_rows_count, i, current_offset) ==
    IF i >= input_rows_count THEN acc
    ELSE LET filled == PairLoop(acc, column_ptrs, num_elements, i, 0)
             offset == current_offset + (num_elements \div 2)
         IN  RowLoop([filled EXCEPT !.offsets = Append(@, offset)],
                     column_ptrs, num_elements, input_rows_count, i + 1, offset)

RECURSIVE RowLoop_OffsetPerArgument(_, _, _, _, _, _)
RowLoop_OffsetPerArgument(acc, column_ptrs, num_elements, input_rows_count, i,
                          current_offset) ==
    IF i >= input_rows_count THEN acc
    ELSE LET filled == PairLoop(acc, column_ptrs, num_elements, i, 0)
             offset == current_offset + num_elements
         IN  RowLoop_OffsetPerArgument(
                 [filled EXCEPT !.offsets = Append(@, offset)],
                 column_ptrs, num_elements, input_rows_count, i + 1, offset)

executeImpl_OffsetPerArgument(arguments, result_type, input_rows_count) ==
    LET num_elements == Len(arguments)
        column_ptrs ==
            [i \in 1..num_elements |->
                convertToFullColumnIfConst(
                    castColumn(arguments[i],
                               IF (i - 1) % 2 = 0 THEN result_type.key_type
                               ELSE result_type.value_type),
                    input_rows_count)]
    IN  RowLoop_OffsetPerArgument(
            [NoMap EXCEPT !.rows = input_rows_count,
                          !.key_type = result_type.key_type,
                          !.value_type = result_type.value_type],
            column_ptrs, num_elements, input_rows_count, 0, 0)

executeImpl(arguments, result_type, input_rows_count) ==
    LET num_elements == Len(arguments)
        column_ptrs ==
            [i \in 1..num_elements |->
                convertToFullColumnIfConst(
                    castColumn(arguments[i],
                               IF (i - 1) % 2 = 0 THEN result_type.key_type
                               ELSE result_type.value_type),
                    input_rows_count)]
    IN  IF num_elements = 0
        THEN [NoMap EXCEPT !.const = TRUE, !.rows = input_rows_count,
                           !.key_type = result_type.key_type,
                           !.value_type = result_type.value_type,
                           !.offsets = <<0>>]
        ELSE RowLoop([NoMap EXCEPT !.rows = input_rows_count,
                                   !.key_type = result_type.key_type,
                                   !.value_type = result_type.value_type],
                     column_ptrs, num_elements, input_rows_count, 0, 0)

(* One evaluation of map(...) on the arguments at hand: the return type   *)
(* is built first, and the function is executed only when that did not     *)
(* throw.                                                                  *)
FunctionMap ==
    LET arguments == last.arguments
        input_rows_count == last.rows
        result_type == getReturnTypeImpl(arguments)
    IN  /\ last.op = "mapArguments"
        /\ last' = [op |-> "map", arguments |-> arguments,
                    rows |-> input_rows_count,
                    failure |-> result_type.failure,
                    result |-> IF result_type.failure # "none" THEN NoMap
                               ELSE executeImpl(arguments, result_type,
                                                input_rows_count)]
        /\ UNCHANGED <<path, cache, column>>

NextMap == FunctionMap

InitMap ==
    /\ path = <<>>
    /\ cache = NoCache
    /\ column = EmptyColumn
    /\ \E n \in ArgCounts, input_rows_count \in 0..MaxMapRows :
          \E arguments \in [1..n -> ArgumentColumns(input_rows_count)] :
              last = [op |-> "mapArguments", arguments |-> arguments,
                      rows |-> input_rows_count]

SpecMap == InitMap /\ [][NextMap]_vars

Next == NextNames \/ NextEnum \/ NextDriver \/ NextCompose \/ NextMap

Spec == Init /\ [][Next]_vars

----------------------------------------------------------------------------
(* Sets of paths the properties range over *)

RECURSIVE PathsOfLen(_, _)
PathsOfLen(nodes, n) ==
    IF n = 0 THEN {<<>>}
    ELSE {Append(q, node) : q \in PathsOfLen(nodes, n - 1), node \in nodes}

----------------------------------------------------------------------------
(* Properties of the stream enumerator *)

AfterEnumerate == last.op = "enumerateStreams"

(* C1: after a call of enumerateStreams returns or fails, also when the    *)
(* callback itself throws, the caller's path has the same length and the   *)
(* same nodes in the same order as before the call.                        *)
C1_PathRestoredAfterEnumerate ==
    AfterEnumerate => path = last.path_before

(* C2: for a non-composite type one call of enumerateStreams invokes the   *)
(* callback exactly once, with the caller's path plus exactly one pushed   *)
(* node (length 1 from the empty path) of kind Regular whose data are      *)
(* {type, column, serialization = the serialization itself, no creator}.   *)
C2_VisitorSeesOneRegularNode ==
    AfterEnumerate =>
        /\ Len(last.visited) = 1
        /\ LET seen == last.visited[1]
           IN  /\ Len(seen) = Len(last.path_before) + 1
               /\ SubSeq(seen, 1, Len(seen) - 1) = last.path_before
               /\ seen[Len(seen)].type = "Regular"
               /\ seen[Len(seen)].data =
                      [type |-> last.type, column |-> last.column,
                       serialization |-> last.self, creator |-> "null"]
               /\ last.path_before = <<>> => Len(seen) = 1

C2_Witness ==
    /\ AfterEnumerate
    /\ last.path_before = <<>>
    /\ last.type = "Int32"
    /\ last.column = "col1"
    /\ Len(last.visited) = 1
    /\ last.visited[1] = <<RegularWithData("Int32", "col1", last.self)>>

----------------------------------------------------------------------------
(* Properties of the substreams cache and of the bulk codec driver *)

DriverPaths == UNION {PathsOfLen(DriverNodes, n) : n \in 0..MaxDriverLen}

NonEmptyDriverPaths == DriverPaths \ {<<>>}

KeyOf(p) == getSubcolumnNameForStream(p)

StoreHappens == cache.present /\ path # <<>>

(* C7, as stated: after a store with a present cache and a non-empty path  *)
(* p, a fetch returns the stored column for every non-empty path with the  *)
(* logical subcolumn name of p, and a fetch under a path whose name was    *)
(* never stored returns absent.                                            *)
C7_FetchReturnsStoredValue ==
    (last.op = "addToSubstreamsCache" /\ StoreHappens) =>
        \A q \in NonEmptyDriverPaths :
            /\ KeyOf(q) = KeyOf(path) =>
                  getFromSubstreamsCache(cache, q) = column
            /\ KeyOf(q) \notin DOMAIN cache.map =>
                  getFromSubstreamsCache(cache, q) = NullColumn

(* C7, amended: after a store with a present cache and a non-empty path p, *)
(* a fetch under every non-empty path with the logical subcolumn name of p *)
(* returns the value held under that name: the stored column when the name *)
(* was not a key before the store, otherwise the value stored earlier; a   *)
(* fetch under a path whose name is not a key returns absent.              *)
C7_FetchReturnsValueHeldUnderName ==
    [][(last'.op = "addToSubstreamsCache" /\ StoreHappens) =>
          \A q \in NonEmptyDriverPaths :
              /\ KeyOf(q) = KeyOf(path) =>
                    getFromSubstreamsCache(cache', q) =
                        IF KeyOf(path) \in DOMAIN cache.map
                        THEN cache.map[KeyOf(path)] ELSE column
              /\ KeyOf(q) \notin DOMAIN cache'.map =>
                    getFromSubstreamsCache(cache', q) = NullColumn]_vars

C7_Witness ==
    /\ last.op = "addToSubstreamsCache"
    /\ StoreHappens
    /\ column.rows > 0
    /\ \E q \in NonEmptyDriverPaths :
          /\ q # path
          /\ KeyOf(q) = KeyOf(path)
          /\ getFromSubstreamsCache(cache, q) = column
    /\ \E q \in NonEmptyDriverPaths :
          getFromSubstreamsCache(cache, q) = NullColumn

AfterDeserializeMulti == last.op = "deserializeBinaryBulkWithMultipleStreams"

AfterSerializeMulti == last.op = "serializeBinaryBulkWithMultipleStreams"

Decoded ==
    AfterDeserializeMulti /\ ~last.hit /\ last.stream /\ last.failure = NoFailure

HitIsServedFromCache ==
    (AfterDeserializeMulti /\ last.hit) =>
        /\ last.getter_calls = 0
        /\ last.codec_calls = 0
        /\ last.bytes = 0
        /\ column = getFromSubstreamsCache(cache, path)

StoredUnderCurrentName ==
    /\ KeyOf(path) \in DOMAIN cache.map
    /\ cache.map[KeyOf(path)] = column

(* A deserialize whose path has a name that is a key is a hit and asks     *)
(* the locator for nothing; entries stay in the cache.                     *)
KeyedDeserializeIsHit ==
    /\ (last'.op = "deserializeBinaryBulkWithMultipleStreams"
        /\ path # <<>> /\ KeyOf(path) \in DOMAIN cache.map) =>
          /\ last'.hit
          /\ last'.getter_calls = 0
          /\ column' = cache.map[KeyOf(path)]
    /\ \A k \in DOMAIN cache.map :
          k \in DOMAIN cache'.map /\ cache'.map[k] = cache.map[k]

(* C8, as stated: on a cache hit the locator is never invoked, no stream   *)
(* is read and the column becomes the cached value; on a miss where the    *)
(* locator yields a stream and decoding succeeds the decoded column is     *)
(* stored under the logical subcolumn name of the current path, so that a  *)
(* later deserialize with a path of that name is a hit.                    *)
C8_DecodedColumnIsCached ==
    /\ [](HitIsServedFromCache /\ (Decoded => StoredUnderCurrentName))
    /\ [][KeyedDeserializeIsHit]_vars

(* C8, amended: as C8, the decoded column being stored provided a cache is *)
(* present and the current path is non-empty (with no cache or with the    *)
(* empty path nothing is stored and a repeated call decodes again).        *)
C8_DecodedColumnIsCachedWhenStorable ==
    /\ [](HitIsServedFromCache
          /\ ((Decoded /\ StoreHappens) => StoredUnderCurrentName))
    /\ [][KeyedDeserializeIsHit]_vars

C8_Witness ==
    /\ AfterDeserializeMulti
    /\ last.hit
    /\ column.rows > 0
    /\ Len(path) = 1
    /\ path[1].type = "ArrayElements"
    /\ DOMAIN cache.map = {<<>>}

(* C9: when the locator returns no stream (and, on deserialize, the cache  *)
(* misses) multi-stream serialize and deserialize return without failure,  *)
(* without calling the single-stream codec, and leave the column, the      *)
(* cache and the settings path unchanged.                                  *)
C9_AbsentStreamIsSkipped ==
    [][((last'.op = "serializeBinaryBulkWithMultipleStreams"
         \/ last'.op = "deserializeBinaryBulkWithMultipleStreams")
        /\ ~last'.hit /\ ~last'.stream) =>
          /\ last'.failure = NoFailure
          /\ last'.codec_calls = 0
          /\ last'.bytes = 0
          /\ UNCHANGED <<column, cache, path>>]_vars

C9_Witness ==
    /\ AfterDeserializeMulti
    /\ ~last.hit
    /\ ~last.stream
    /\ last.getter_calls = 1
    /\ path # <<>>
    /\ cache.present
    /\ cache.map # <<>>
    /\ column.rows > 0

MultipleStreamsRequired(name) ==
    [code |-> "MULTIPLE_STREAMS_REQUIRED", column |-> name]

(* C10: the default single-stream entry points always fail with            *)
(* MULTIPLE_STREAMS_REQUIRED naming the column and move no bytes; raised   *)
(* inside multi-stream deserialize (miss, the locator yields a stream) the *)
(* failure reaches the caller, the cache gets no entry, the caller's       *)
(* column is not replaced and the settings path is unchanged.              *)
C10_SingleStreamEntryFails ==
    /\ []((last.op \in {"serializeBinaryBulk", "deserializeBinaryBulk"}
           /\ last.self = "ISerialization") =>
             /\ last.failure = MultipleStreamsRequired(last.column_name)
             /\ last.bytes = 0)
    /\ [][(last'.op = "deserializeBinaryBulkWithMultipleStreams"
           /\ last'.self = "ISerialization" /\ ~last'.hit /\ last'.stream) =>
             /\ last'.failure = MultipleStreamsRequired(column.name)
             /\ last'.bytes = 0
             /\ UNCHANGED <<column, cache, path>>]_vars

C10_Witness ==
    /\ AfterDeserializeMulti
    /\ last.self = "ISerialization"
    /\ last.failure = MultipleStreamsRequired("UInt8")
    /\ StoreHappens
    /\ KeyOf(path) \notin DOMAIN cache.map

IsStoreStep ==
    \/ last'.op = "addToSubstreamsCache"
    \/ last'.op = "deserializeBinaryBulkWithMultipleStreams"

(* C11: a store is a no-op when the cache is absent or the path is empty   *)
(* and a fetch returns absent in the same two cases; a fetch never changes *)
(* the cache; so every entry that enters the cache is inserted by a store  *)
(* with a non-empty path, under the logical subcolumn name of that full    *)
(* path, and an absent cache never holds an entry.                         *)
C11_CacheNoOpConditions ==
    /\ []((last.op = "getFromSubstreamsCache" /\ ~StoreHappens) =>
             last.result = NullColumn)
    /\ [](~cache.present => cache.map = <<>>)
    /\ [][/\ (last'.op = "addToSubstreamsCache" /\ ~StoreHappens) =>
               cache' = cache
          /\ last'.op = "getFromSubstreamsCache" => cache' = cache
          /\ cache'.present = cache.present
          /\ \A k \in DOMAIN cache'.map \ DOMAIN cache.map :
                /\ IsStoreStep
                /\ StoreHappens
                /\ path' = path
                /\ k = getSubcolumnNameForStreamPrefix(path, Len(path))]_vars

C11_Witness ==
    /\ last.op = "addToSubstreamsCache"
    /\ path = <<>>
    /\ cache.present
    /\ DOMAIN cache.map = {<<>>, <<"n", "u", "l", "l">>}
    /\ column.rows > 0

(* C14: cache entries are first-write-wins: a store under a path whose     *)
(* logical subcolumn name is already a key leaves the cache as it is (the  *)
(* new value is discarded); an entry enters with the value stored at that  *)
(* moment and no step changes or removes it afterwards, so a fetch returns *)
(* the value of the first store made under that name, and the cache never  *)
(* shrinks.                                                                *)
C14_FirstWriteWins ==
    /\ []((last.op = "getFromSubstreamsCache" /\ StoreHappens
           /\ KeyOf(path) \in DOMAIN cache.map) =>
             last.result = cache.map[KeyOf(path)])
    /\ [][/\ (last'.op = "addToSubstreamsCache" /\ StoreHappens
              /\ KeyOf(path) \in DOMAIN cache.map) => cache' = cache
          /\ \A k \in DOMAIN cache.map :
                k \in DOMAIN cache'.map /\ cache'.map[k] = cache.map[k]
          /\ \A k \in DOMAIN cache'.map \ DOMAIN cache.map :
                cache'.map[k] = column']_vars

C14_Witness ==
    /\ last.op = "addToSubstreamsCache"
    /\ StoreHappens
    /\ KeyOf(path) \in DOMAIN cache.map
    /\ cache.map[KeyOf(path)].rows = 1
    /\ column.rows = 2

----------------------------------------------------------------------------
(* Properties of the name resolver *)

EscapedDot == <<"%", "2", "E">>

ArrayLevelBefore(p, i) ==
    Cardinality({j \in 1..(i - 1) : p[j].type = "ArrayElements"})

NodeSuffix(p, i) ==
    LET t == p[i].type IN
    CASE t = "NullMap"        -> <<".", "n", "u", "l", "l">>
      [] t = "ArraySizes"     -> <<".", "s", "i", "z", "e">>
                                   \o toString(ArrayLevelBefore(p, i))
      [] t = "DictionaryKeys" -> <<".", "d", "i", "c", "t">>
      [] t = "SparseOffsets"  -> <<".", "s", "p", "a", "r", "s", "e",
                                   ".", "i", "d", "x">>
      [] t = "TupleElement"   -> (IF p[i].escape_tuple_delimiter
                                  THEN EscapedDot ELSE <<".">>)
                                   \o escapeForFileName(p[i].tuple_element_name)
      [] OTHER                -> <<>>

RECURSIVE SuffixesUpTo(_, _)
SuffixesUpTo(p, i) ==
    IF i = 0 THEN <<>> ELSE SuffixesUpTo(p, i - 1) \o NodeSuffix(p, i)

IsNestedName(name) == extractTableName(name) # name

IsSingleArraySizes(p) == Len(p) = 1 /\ p[1].type = "ArraySizes"

EndsWith(s, t) ==
    Len(t) <= Len(s) /\ SubSeq(s, Len(s) - Len(t) + 1, Len(s)) = t

AfterFileName == last.op = "getFileNameForStream"

AfterSubcolumnName ==
    last.op = "getSubcolumnNameForStream" /\ last.prefix_len = Len(path)

LevelTwoSizesPath ==
    <<Substream("ArrayElements"), Substream("ArrayElements"),
      Substream("ArraySizes")>>

(* C3, as stated: for every base name and every path the physical stream   *)
(* name is the escaped base name followed by one suffix per node of the    *)
(* path, in path order.                                                    *)
C3_EscapedBaseThenSuffixes ==
    AfterFileName =>
        last.result = escapeForFileName(last.name) \o SuffixesUpTo(path, Len(path))

(* C3, amended: the physical stream name is the escaped base name, or the  *)
(* escaped table prefix when the base name is nested and the path is       *)
(* exactly one ArraySizes node, followed by one suffix per node in path    *)
(* order; ArraySizes gives .size<N>, N the number of ArrayElements nodes   *)
(* before it, so [ArrayElements, ArrayElements, ArraySizes] ends in .size2 *)
C3_PhysicalNameIsBasePlusSuffixes ==
    AfterFileName =>
        /\ last.result =
              (IF IsNestedName(last.name) /\ IsSingleArraySizes(path)
               THEN escapeForFileName(extractTableName(last.name))
               ELSE escapeForFileName(last.name))
              \o SuffixesUpTo(path, Len(path))
        /\ path = LevelTwoSizesPath =>
              last.result = escapeForFileName(last.name)
                              \o <<".", "s", "i", "z", "e", "2">>

C3_Witness ==
    /\ AfterFileName
    /\ path = LevelTwoSizesPath
    /\ last.name = <<"n", ".", "a">>
    /\ last.result = <<"n", "%", "2", "E", "a", ".", "s", "i", "z", "e", "2">>

FlipFlags(p) ==
    [i \in 1..Len(p) |->
        [p[i] EXCEPT !.escape_tuple_delimiter = ~p[i].escape_tuple_delimiter]]

LastNode == path[Len(path)]

EndsInTupleElement == path # <<>> /\ LastNode.type = "TupleElement"

(* C4: in the physical name a TupleElement node is joined with the escaped *)
(* dot exactly when its own escape flag is set and with a literal dot      *)
(* otherwise; in the logical subcolumn name the delimiter is a literal dot *)
(* whatever the flags and the leading delimiter is stripped.  For the path *)
(* [TupleElement("b", escape = true)] and base column a the physical name  *)
(* is a%2Eb and the logical subcolumn name is b.                           *)
C4_TupleDelimiter ==
    /\ (AfterFileName /\ EndsInTupleElement) =>
          EndsWith(last.result,
                   (IF LastNode.escape_tuple_delimiter THEN EscapedDot ELSE <<".">>)
                     \o escapeForFileName(LastNode.tuple_element_name))
    /\ (AfterSubcolumnName /\ EndsInTupleElement) =>
          \/ last.result = escapeForFileName(LastNode.tuple_element_name)
          \/ EndsWith(last.result,
                      <<".">> \o escapeForFileName(LastNode.tuple_element_name))
    /\ AfterSubcolumnName =>
          /\ last.result = getSubcolumnNameForStream(FlipFlags(path))
          /\ last.result # <<>> => last.result[1] # "."
    /\ path = <<TupleElement(<<"b">>, TRUE)>> =>
          /\ (AfterFileName /\ last.name = <<"a">>) =>
                last.result = <<"a", "%", "2", "E", "b">>
          /\ AfterSubcolumnName => last.result = <<"b">>

C4_Witness ==
    /\ AfterSubcolumnName
    /\ path = <<TupleElement(<<"b">>, TRUE)>>
    /\ last.result = <<"b">>

(* C5: the physical name starts from the escaped table prefix if and only  *)
(* if the base name is nested and the path is exactly one ArraySizes node, *)
(* and from the escaped full base name otherwise; so two fields of one     *)
(* nested table share the name for [ArraySizes] and for no other path.     *)
C5_NestedAliasing ==
    AfterFileName =>
        LET suffixes == SuffixesUpTo(path, Len(path))
            fromTable ==
                last.result = escapeForFileName(extractTableName(last.name)) \o suffixes
            fromFull ==
                last.result = escapeForFileName(last.name) \o suffixes
        IN  /\ IsNestedName(last.name) =>
                  (fromTable <=> IsSingleArraySizes(path))
            /\ ~(IsNestedName(last.name) /\ IsSingleArraySizes(path)) => fromFull
            /\ \A other \in BaseNames \ {last.name} :
                  (/\ IsNestedName(last.name)
                   /\ IsNestedName(other)
                   /\ extractTableName(other) = extractTableName(last.name))
                  => ((getFileNameForStream(other, path) = last.result)
                        <=> IsSingleArraySizes(path))

C5_Witness ==
    /\ AfterFileName
    /\ path = <<Substream("ArraySizes")>>
    /\ last.name = <<"n", ".", "b">>
    /\ last.result = <<"n", ".", "s", "i", "z", "e", "0">>

OtherPaths == UNION {PathsOfLen(PlainNodes, n) : n \in 0..MaxOtherLen}

FileNameOf == [n \in BaseNames |-> [q \in OtherPaths |-> getFileNameForStream(n, q)]]

SubcolumnNameOf == [q \in OtherPaths |-> getSubcolumnNameForStream(q)]

HasTupleElement(p) == \E i \in 1..Len(p) : p[i].type = "TupleElement"

IsSuffixBearing(node) ==
    node.type \in {"NullMap", "ArraySizes", "DictionaryKeys", "SparseOffsets"}

SuffixBearingKinds(p) ==
    LET kept == SelectSeq(p, IsSuffixBearing)
    IN  [i \in 1..Len(kept) |-> kept[i].type]

(* C6, as stated: for a fixed base column name any two different paths are *)
(* mapped to different physical stream names and to different logical      *)
(* subcolumn names.                                                        *)
C6_DifferentPathsDifferentNames ==
    /\ AfterFileName =>
          \A q \in OtherPaths :
              q # path => FileNameOf[last.name][q] # last.result
    /\ AfterSubcolumnName =>
          \A q \in OtherPaths :
              q # path => SubcolumnNameOf[q] # last.result

(* C6, amended: for a fixed base column name, two paths without            *)
(* TupleElement nodes whose sequences of suffix-bearing nodes (NullMap,    *)
(* ArraySizes, DictionaryKeys, SparseOffsets) differ are mapped to         *)
(* different physical stream names and to different logical subcolumn      *)
(* names; Regular, DictionaryIndexes and ArrayElements nodes add no suffix *)
(* of their own, so paths that differ only in them can share a name.       *)
C6_SuffixBearingNodesSeparateNames ==
    ~HasTupleElement(path) =>
        /\ AfterFileName =>
              \A q \in OtherPaths :
                  SuffixBearingKinds(q) # SuffixBearingKinds(path)
                  => FileNameOf[last.name][q] # last.result
        /\ AfterSubcolumnName =>
              \A q \in OtherPaths :
                  SuffixBearingKinds(q) # SuffixBearingKinds(path)
                  => SubcolumnNameOf[q] # last.result

C6_Witness ==
    /\ AfterSubcolumnName
    /\ path = <<Substream("ArrayElements"), Substream("NullMap"),
                Substream("ArraySizes")>>
    /\ last.result = <<"n", "u", "l", "l", ".", "s", "i", "z", "e", "1">>
    /\ SubcolumnNameOf[<<Substream("NullMap"), Substream("Regular")>>]
          = <<"n", "u", "l", "l">>

StructuralKinds == {"NullMap", "ArraySizes", "DictionaryIndexes", "SparseOffsets"}

(* C13: isSpecialCompressionAllowed returns false if and only if the path  *)
(* contains at least one node of kind NullMap, ArraySizes,                 *)
(* DictionaryIndexes or SparseOffsets; it returns true for every other     *)
(* path, the empty path included.                                          *)
C13_CompressionEligibility ==
    last.op = "isSpecialCompressionAllowed" =>
        /\ (last.result = FALSE)
              <=> (\E i \in 1..Len(path) : path[i].type \in StructuralKinds)
        /\ path = <<>> => last.result = TRUE

C13_Witness ==
    /\ last.op = "isSpecialCompressionAllowed"
    /\ Len(path) = 3
    /\ path[1].type = "DictionaryIndexes"
    /\ path[2].type = "ArrayElements"
    /\ path[3].type = "TupleElement"
    /\ last.result = FALSE

----------------------------------------------------------------------------
(* Properties of the path composer *)

CreatorsOf(p, prefix_len) ==
    LET creators == [i \in 1..prefix_len |-> p[i].data.creator]
        IsCreator(c) == c # "null"
    IN  SelectSeq(creators, IsCreator)

Wrapped(wrappers, inner) ==
    IF inner = NullPtr THEN NullPtr ELSE wrappers \o inner

(* C12: for a non-empty path and prefix_len below its length createFromPath*)
(* returns the data of node prefix_len with its creator cleared, wrapped   *)
(* by the creators of the nodes prefix_len - 1 down to 0 applied in that   *)
(* order (innermost first, outermost last); nodes without a creator are    *)
(* skipped, the same creators wrap type, column and serialization (an      *)
(* absent one stays absent), and the path is not modified.  With           *)
(* prefix_len = 0 the result is the own data of node 0.                    *)
C12_Composition ==
    /\ [](last.op = "createFromPath" =>
            LET node == path[last.prefix_len + 1].data
                wrappers == CreatorsOf(path, last.prefix_len)
            IN  /\ last.result.creator = "null"
                /\ last.result.type = Wrapped(wrappers, node.type)
                /\ last.result.column = Wrapped(wrappers, node.column)
                /\ last.result.serialization =
                      Wrapped(wrappers, node.serialization)
                /\ last.prefix_len = 0 =>
                      last.result = [node EXCEPT !.creator = "null"])
    /\ [][last'.op = "createFromPath" => path' = path]_vars

C12_Witness ==
    /\ last.op = "createFromPath"
    /\ last.prefix_len = 2
    /\ Len(path) = 3
    /\ path[1].type = "NullMap"
    /\ path[2].data.creator = "Array"
    /\ last.result.type = <<"Nullable", "Array", "Int32">>
    /\ last.result.column = <<"Nullable", "Array", "col">>
    /\ last.result.creator = "null"

----------------------------------------------------------------------------
(* Properties of the map function *)

ValueAt(arg, i) == IF arg.const THEN arg.data[1] ELSE arg.data[i]

(* C15: map rejects an odd number of arguments with                        *)
(* NUMBER_OF_ARGUMENTS_DOESNT_MATCH; for 2n > 0 arguments and R rows the   *)
(* result holds, for every row i, exactly n pairs, the j-th being (value   *)
(* of argument 2j at row i, value of argument 2j+1 at row i) in argument   *)
(* order (arguments counted from 0), and the i-th offset is (i+1)*n; with  *)
(* no argument the result is the constant empty map for all rows.          *)
C15_MapRowsHoldArgumentPairs ==
    last.op = "map" =>
        LET count == Len(last.arguments)
            n == count \div 2
            R == last.rows
            res == last.result
        IN  /\ (count % 2 = 1) <=>
                  (last.failure = "NUMBER_OF_ARGUMENTS_DOESNT_MATCH")
            /\ count % 2 = 0 => last.failure = "none"
            /\ (count % 2 = 0 /\ count > 0) =>
                  /\ ~res.const
                  /\ Len(res.offsets) = R
                  /\ Len(res.keys) = R * n
                  /\ Len(res.values) = R * n
                  /\ \A i \in 1..R :
                        /\ res.offsets[i] = i * n
                        /\ \A j \in 1..n :
                              /\ res.keys[(i - 1) * n + j] =
                                    ValueAt(last.arguments[2 * j - 1], i)
                              /\ res.values[(i - 1) * n + j] =
                                    ValueAt(last.arguments[2 * j], i)
            /\ count = 0 =>
                  /\ res.const
                  /\ res.rows = R
                  /\ res.keys = <<>>
                  /\ res.values = <<>>
                  /\ res.offsets = <<0>>

C15_Witness ==
    /\ last.op = "map"
    /\ Len(last.arguments) = 4
    /\ last.rows = 2
    /\ last.arguments[1].const
    /\ ~last.arguments[2].const
    /\ last.result.keys = <<1, 0, 1, 1>>
    /\ last.result.values = <<0, 1, 1, 0>>
    /\ last.result.offsets = <<2, 4>>

====
